---- MODULE Spec2Model ----
(***************************************************************************)
(* The Runtime API subsystem of node/core/runtime-api/src/lib.rs.          *)
(*                                                                         *)
(* One actor owns a mailbox (ctx.recv), multiplexes overseer signals and   *)
(* RuntimeApiMessage::Request items, and answers each request through the  *)
(* oneshot sender embedded in it (make_runtime_api_request / query!).      *)
(* The loop's position is explicit (pc), so the order of the three effects *)
(* of query! (provider call, metrics.on_request, sender.send) is visible.  *)
(***************************************************************************)
EXTENDS Integers, Sequences, FiniteSets, TLC

(* ---------------------------------------------------------------- bounds *)

\* Number of operations the overseer side performs on the bus in one run
\* (items sent, and dropping its handle).
MaxSent == 2

(* ------------------------------------------------------------ data types *)

\* relay_parent values (Hash). Block 1 is known to the client, block 2 is not.
Blocks == {1, 2}

\* Para ids used by the tests: para_a = 5 (present), para_b = 6 (absent).
ParaA == 5
ParaB == 6
Paras == {ParaA, ParaB}

\* The (para, OccupiedCoreAssumption) pairs callers ask about.
ParaQueries == {<<ParaA, "Included">>, <<ParaB, "TimedOut">>}

NoPara == 0
NoAssumption == "-"

\* The nine variants of RuntimeApiRequest matched in make_runtime_api_request.
PlainVariants ==
    {"Validators", "ValidatorGroups", "AvailabilityCores",
     "SessionIndexForChild", "CandidateEvents"}
ParaAssumptionVariants ==
    {"PersistedValidationData", "FullValidationData", "ValidationCode"}
ParaOnlyVariants == {"CandidatePendingAvailability"}
ParaVariants == ParaAssumptionVariants \cup ParaOnlyVariants
Variants == PlainVariants \cup ParaVariants

\* The parameters a variant carries (everything but the sender).
RequestParams ==
    [variant : PlainVariants, para : {NoPara}, assumption : {NoAssumption}]
    \cup {[variant |-> v, para |-> q[1], assumption |-> q[2]] :
              v \in ParaAssumptionVariants, q \in ParaQueries}
    \cup [variant : ParaOnlyVariants, para : Paras, assumption : {NoAssumption}]

\* OverseerSignal variants matched in run.
Signals == {"Conclude", "ActiveLeaves", "BlockFinalized"}

Signal(s) == [kind |-> "Signal", signal |-> s]

Communication(relay_parent, p, sender) ==
    [kind |-> "Communication", relay_parent |-> relay_parent,
     variant |-> p.variant, para |-> p.para, assumption |-> p.assumption,
     sender |-> sender]

NoRequest ==
    [kind |-> "None", relay_parent |-> 0, variant |-> "-", para |-> NoPara,
     assumption |-> NoAssumption, sender |-> 0]

\* Result<T, RuntimeApiError> as carried by a reply channel.
Ok(v) == [ok |-> TRUE, val |-> v]
Err(e) == [ok |-> FALSE, val |-> e]
NoResult == [ok |-> FALSE, val |-> "-"]

SenderIds == 1..(MaxSent + 1)

(* --------------------------------------------------------------- state *)

VARIABLES
    mailbox,    \* items on the bus, not yet received by ctx.recv()
    closed,     \* the overseer side of the bus is gone: ctx.recv() can fail
    nsent,      \* number of bus operations the overseer side has performed
    pc,         \* position of run: "recv", "api", "on_request", "send",
                \*   "returned", "panicked"
    result,     \* return value of run: "none", "Ok", "Err"
    future,     \* output of SpawnedSubsystem.future: "pending", "()", "panic"
    cur,        \* the request held by make_runtime_api_request
    res,        \* `res` of query!
    client,     \* subsystem.client: the provider's backing state
    metrics,    \* subsystem.metrics: Metrics(Option<MetricsInner>)
    sent,       \* per oneshot channel: the values passed to sender.send
    slot,       \* per oneshot channel: the values the channel accepted
    rx,         \* per oneshot channel: "none", "open", "dropped"
    calls,      \* provider calls made so far, in order
    observed    \* arguments of metrics.on_request so far, in order

vars ==
    <<mailbox, closed, nsent, pc, result, future, cur, res, client, metrics,
      sent, slot, rx, calls, observed>>

(* ------------------------------------------------------------- provider *)

\* The value the runtime holds for a query at a block the client knows.
\* Plain variants answer with the block's value; the para variants look the
\* para up in the backing map and answer Some(..) or None.
Lookup(c, variant, at, para) ==
    IF variant \in PlainVariants THEN <<variant, at>>
    ELSE IF para \in c[variant] THEN <<"Some", variant, at, para>>
    ELSE <<"None">>

\* api.$api_name(&BlockId::Hash(relay_parent), params..): Result<T, Error>.
RuntimeApiCall(c, variant, at, para, assumption) ==
    IF at \in c.failing THEN Err("UnknownBlock")
    ELSE Ok(Lookup(c, variant, at, para))

\* format!("{:?}", e) of a String error: the text in double quotes.
DebugFormat(e) == "\"" \o e \o "\""

\* .map_err(|e| RuntimeApiError::from(format!("{:?}", e)))
MapErr(r) == IF r.ok THEN r ELSE Err(<<"RuntimeApiError", DebugFormat(r.val)>>)

(* -------------------------------------------------------------- metrics *)

NoMetrics == [enabled |-> FALSE, variable_labels |-> <<>>,
              succeeded |-> 0, failed |-> 0]

\* Metrics::try_register: a CounterVec declared with the label names
\* &["succeeded", "failed"], all children at zero.
TryRegister ==
    [enabled |-> TRUE, variable_labels |-> <<"succeeded", "failed">>,
     succeeded |-> 0, failed |-> 0]

\* CounterVec::with_label_values(vals) unwraps get_metric_with_label_values,
\* which is an InconsistentCardinality error unless exactly one value is
\* given per label name the vector was declared with: the call panics.
WithLabelValuesPanics(m, vals) == Len(vals) # Len(m.variable_labels)

\* .with_label_values(&[label]).inc()
IncChild(m, label) ==
    IF label = "succeeded" THEN [m EXCEPT !.succeeded = @ + 1]
    ELSE [m EXCEPT !.failed = @ + 1]

\* The label values on_request passes for an outcome.
LabelValues(succeeded) == IF succeeded THEN <<"succeeded">> ELSE <<"failed">>

\* Metrics::on_request: the metrics afterwards, and whether the call unwound.
on_request(m, succeeded) ==
    IF ~m.enabled THEN [panicked |-> FALSE, metrics |-> m]
    ELSE IF WithLabelValuesPanics(m, LabelValues(succeeded))
         THEN [panicked |-> TRUE, metrics |-> m]
         ELSE [panicked |-> FALSE,
               metrics |-> IncChild(m, LabelValues(succeeded)[1])]

(* ---------------------------------------------------------- the mailbox *)

\* ctx.recv() takes the oldest item off the bus.
recv_Newest(mb) == [item |-> mb[Len(mb)], rest |-> SubSeq(mb, 1, Len(mb) - 1)]
recv(mb) == [item |-> Head(mb), rest |-> Tail(mb)]

\* Subsystem::start: run(ctx, self).map(|_| ()) drops run's result.
StartMap(r) == "()"

\* The arm of `match ctx.recv().await?` a signal takes: where run is next.
OnSignal_ConcludeIgnored(s) == "recv"
OnSignal_EverySignalConcludes(s) == "returned"
OnSignal(s) == IF s = "Conclude" THEN "returned" ELSE "recv"

(* ------------------------------------------------------------------ Init *)

Init ==
    /\ mailbox = <<>>
    /\ closed = FALSE
    /\ nsent = 0
    /\ pc = "recv"
    /\ result = "none"
    /\ future = "pending"
    /\ cur = NoRequest
    /\ res = NoResult
    /\ client = [PersistedValidationData |-> {ParaA},
                 FullValidationData |-> {ParaA},
                 ValidationCode |-> {ParaA},
                 CandidatePendingAvailability |-> {ParaA},
                 failing |-> {2}]
    /\ metrics \in {NoMetrics, TryRegister}
    /\ sent = [i \in SenderIds |-> <<>>]
    /\ slot = [i \in SenderIds |-> <<>>]
    /\ rx = [i \in SenderIds |-> "none"]
    /\ calls = <<>>
    /\ observed = <<>>

(* --------------------------------------------- the overseer and callers *)

NextSender == Cardinality({i \in SenderIds : rx[i] # "none"}) + 1

\* ctx_handle.send(FromOverseer::Signal(s))
OverseerSignal(s) ==
    /\ nsent < MaxSent
    /\ ~closed
    /\ mailbox' = Append(mailbox, Signal(s))
    /\ nsent' = nsent + 1
    /\ UNCHANGED <<closed, pc, result, future, cur, res, client, metrics,
                   sent, slot, rx, calls, observed>>

\* let (tx, rx) = oneshot::channel(); ctx_handle.send(Communication{..tx})
OverseerRequest(at, p) ==
    /\ nsent < MaxSent
    /\ ~closed
    /\ mailbox' = Append(mailbox, Communication(at, p, NextSender))
    /\ rx' = [rx EXCEPT ![NextSender] = "open"]
    /\ nsent' = nsent + 1
    /\ UNCHANGED <<closed, pc, result, future, cur, res, client, metrics,
                   sent, slot, calls, observed>>

\* The overseer side of the bus goes away.
OverseerClose ==
    /\ nsent < MaxSent
    /\ ~closed
    /\ closed' = TRUE
    /\ nsent' = nsent + 1
    /\ UNCHANGED <<mailbox, pc, result, future, cur, res, client,
                   metrics, sent, slot, rx, calls, observed>>

\* A caller drops the read side of its reply channel before it is answered.
CallerDrop(i) ==
    /\ rx[i] = "open"
    /\ sent[i] = <<>>
    /\ rx' = [rx EXCEPT ![i] = "dropped"]
    /\ UNCHANGED <<mailbox, closed, nsent, pc, result, future, cur, res,
                   client, metrics, sent, slot, calls, observed>>

(* ------------------------------------------------------------------ run *)

\* run is at `ctx.recv().await`: dispatch is a plain call inside the loop, so
\* the next receive starts only once make_runtime_api_request has returned.
AwaitingRecv_WhileSending == pc \in {"recv", "send"}
AwaitingRecv == pc = "recv"

\* ctx.recv().await? yields a signal.
RecvSignal ==
    /\ AwaitingRecv
    /\ mailbox # <<>>
    /\ recv(mailbox).item.kind = "Signal"
    /\ mailbox' = recv(mailbox).rest
    /\ pc' = OnSignal(recv(mailbox).item.signal)
    /\ result' = IF pc' = "returned" THEN "Ok" ELSE result
    /\ future' = IF pc' = "returned" THEN StartMap("Ok") ELSE future
    /\ UNCHANGED <<closed, nsent, cur, res, client, metrics, sent, slot, rx,
                   calls, observed>>

\* ctx.recv().await? yields a request: make_runtime_api_request is entered.
RecvRequest ==
    /\ AwaitingRecv
    /\ mailbox # <<>>
    /\ recv(mailbox).item.kind = "Communication"
    /\ mailbox' = recv(mailbox).rest
    /\ cur' = recv(mailbox).item
    /\ pc' = "api"
    /\ UNCHANGED <<closed, nsent, result, future, res, client, metrics, sent,
                   slot, rx, calls, observed>>

\* ctx.recv().await? is an error: `?` returns it from run.
RecvError ==
    /\ AwaitingRecv
    /\ closed
    /\ pc' = "returned"
    /\ result' = "Err"
    /\ future' = StartMap("Err")
    /\ UNCHANGED <<mailbox, closed, nsent, cur, res, client, metrics, sent,
                   slot, rx, calls, observed>>

(* --------------------------------------------- make_runtime_api_request *)

\* The provider call the matched arm of `match request` makes.
QueryCall_StaleBlock(c, at, request) ==
    [variant |-> request.variant,
     at |-> IF calls = <<>> THEN at ELSE calls[Len(calls)].at,
     para |-> request.para, assumption |-> request.assumption,
     sender |-> request.sender]
QueryCall(c, at, request) ==
    [variant |-> request.variant, at |-> at, para |-> request.para,
     assumption |-> request.assumption, sender |-> request.sender]

\* The value bound to `res`: the answer of this one call, errors mapped.
QueryResult_CachedByVariant(c, q) ==
    LET hits == {k \in DOMAIN calls : calls[k].variant = q.variant}
        first == CHOOSE k \in hits : \A j \in hits : k <= j
    IN  IF hits = {}
        THEN MapErr(RuntimeApiCall(c, q.variant, q.at, q.para, q.assumption))
        ELSE MapErr(RuntimeApiCall(c, q.variant, calls[first].at,
                                   calls[first].para, calls[first].assumption))
QueryResult(c, q) ==
    MapErr(RuntimeApiCall(c, q.variant, q.at, q.para, q.assumption))

\* let res = api.$api_name(&BlockId::Hash(relay_parent), ..).map_err(..)
QueryApi ==
    /\ pc = "api"
    /\ LET q == QueryCall(client, cur.relay_parent, cur) IN
        /\ calls' = Append(calls, q)
        /\ res' = QueryResult(client, q)
    /\ pc' = "on_request"
    /\ UNCHANGED <<mailbox, closed, nsent, result, future, cur, client,
                   metrics, sent, slot, rx, observed>>

\* res.is_ok(), the outcome query! reports.
IsOk_AlwaysTrue(r) == TRUE
IsOk(r) == r.ok

\* metrics.on_request(res.is_ok())
QueryOnRequest ==
    /\ pc = "on_request"
    /\ observed' = Append(observed, IsOk(res))
    /\ LET r == on_request(metrics, IsOk(res)) IN
        IF r.panicked
        THEN /\ pc' = "panicked"
             /\ future' = "panic"
             /\ cur' = NoRequest
             /\ res' = NoResult
             /\ UNCHANGED metrics
        ELSE /\ pc' = "send"
             /\ metrics' = r.metrics
             /\ UNCHANGED <<future, cur, res>>
    /\ UNCHANGED <<mailbox, closed, nsent, result, client, sent, slot, rx,
                   calls>>

\* The channel a write of query! goes to.
ReplyTo(request) == request.sender

\* query! is at `let _ = sender.send(res)`, after metrics.on_request.
SendReady_BeforeOnRequest == pc \in {"on_request", "send"}
SendReady == pc = "send"

\* let _ = sender.send(res): accepted unless the read side is gone.
QuerySend ==
    /\ SendReady
    /\ sent' = [sent EXCEPT ![ReplyTo(cur)] = Append(@, res)]
    /\ slot' = IF rx[ReplyTo(cur)] = "open"
               THEN [slot EXCEPT ![ReplyTo(cur)] = Append(@, res)]
               ELSE slot
    /\ pc' = "recv"
    /\ cur' = NoRequest
    /\ res' = NoResult
    /\ UNCHANGED <<mailbox, closed, nsent, result, future, client, metrics,
                   rx, calls, observed>>

(* ------------------------------------------------------------------ Next *)

Next ==
    \/ \E s \in Signals : OverseerSignal(s)
    \/ \E at \in Blocks, p \in RequestParams : OverseerRequest(at, p)
    \/ OverseerClose
    \/ \E i \in SenderIds : CallerDrop(i)
    \/ RecvSignal
    \/ RecvRequest
    \/ RecvError
    \/ QueryApi
    \/ QueryOnRequest
    \/ QuerySend

Spec == Init /\ [][Next]_vars

\* The steps of the subsystem's task, other than a failed receive.
LoopStep ==
    \/ RecvSignal
    \/ RecvRequest
    \/ QueryApi
    \/ QueryOnRequest
    \/ QuerySend

\* Runs in which the bus stays up, with the task polled whenever it can step.
NextNoFailure ==
    \/ \E s \in Signals : OverseerSignal(s)
    \/ \E at \in Blocks, p \in RequestParams : OverseerRequest(at, p)
    \/ \E i \in SenderIds : CallerDrop(i)
    \/ LoopStep

FairSpec == Init /\ [][NextNoFailure]_vars /\ WF_vars(LoopStep)

(* ------------------------------------------------- notions of the claims *)

\* The requests waiting on the bus.
Waiting == {i \in SenderIds : \E k \in DOMAIN mailbox :
                mailbox[k].kind = "Communication" /\ mailbox[k].sender = i}

\* Request i has been handed to make_runtime_api_request and that call is over.
DispatchFinished(i) == rx[i] # "none" /\ i \notin Waiting /\ cur.sender # i

\* The loop is inside make_runtime_api_request.
InDispatch == pc \in {"api", "on_request", "send"}

\* The provider's answer to the request in dispatch.
Answer(r) ==
    RuntimeApiCall(client, r.variant, r.relay_parent, r.para, r.assumption)

\* The provider's answer to a logged call.
AnswerOf(q) == RuntimeApiCall(client, q.variant, q.at, q.para, q.assumption)

\* This step takes an item off the bus.
Receives == Len(mailbox') < Len(mailbox)

\* This step is the loop's (its position is not the same afterwards).
Leaves(p) == pc = p /\ pc' # p

\* C1: each dispatched Request gets exactly one write into its own reply
\* channel: never more than one, never zero once its dispatch is over, and
\* no write into the channel of a request that has not been dispatched.
C1_ExactlyOneWrite ==
    \A i \in SenderIds :
        /\ Len(sent[i]) <= 1
        /\ DispatchFinished(i) => Len(sent[i]) = 1
        /\ (rx[i] = "none" \/ i \in Waiting) => sent[i] = <<>>

\* C2: when the provider returns a value v for the request in dispatch, the
\* dispatch records it ("succeeded" + 1 and "failed" unchanged, where there
\* are counters) and writes exactly Ok(v) into the request's reply channel.
C2_OkReplyAndSucceeded ==
    [][ /\ (Leaves("on_request") /\ Answer(cur).ok) =>
            /\ pc' = "send"
            /\ metrics.enabled =>
                /\ metrics'.succeeded = metrics.succeeded + 1
                /\ metrics'.failed = metrics.failed
        /\ (Leaves("send") /\ Answer(cur).ok) =>
            sent'[cur.sender] = <<Ok(Answer(cur).val)>>
        /\ (InDispatch /\ Answer(cur).ok /\ ~Leaves("on_request")) =>
            metrics' = metrics
      ]_vars

\* C3: when the provider signals a failure for the request in dispatch, the
\* dispatch records it ("failed" + 1 and "succeeded" unchanged, where there
\* are counters) and writes an Err carrying the diagnostic into the request's
\* reply channel.
C3_ErrReplyAndFailed ==
    [][ /\ (Leaves("on_request") /\ ~Answer(cur).ok) =>
            /\ pc' = "send"
            /\ metrics.enabled =>
                /\ metrics'.failed = metrics.failed + 1
                /\ metrics'.succeeded = metrics.succeeded
        /\ (Leaves("send") /\ ~Answer(cur).ok) =>
            /\ Len(sent'[cur.sender]) = 1
            /\ ~sent'[cur.sender][1].ok
            /\ sent'[cur.sender][1].val[2] = DebugFormat(Answer(cur).val)
        /\ (InDispatch /\ ~Answer(cur).ok /\ ~Leaves("on_request")) =>
            metrics' = metrics
      ]_vars

\* The request in dispatch asks a para variant about a para the provider has
\* no entry for, at a block the provider answers.
AbsentParaQuery ==
    /\ InDispatch
    /\ cur.variant \in ParaVariants
    /\ cur.relay_parent \notin client.failing
    /\ cur.para \notin client[cur.variant]

PresentParaQuery ==
    /\ InDispatch
    /\ cur.variant \in ParaVariants
    /\ cur.relay_parent \notin client.failing
    /\ cur.para \in client[cur.variant]

\* C4: a para-variant query for an absent para id is a success: the reply is
\* Ok(None), and it is counted under "succeeded", not "failed" (where there
\* are counters); a query for a present para id in the same run is answered
\* Ok(Some(value)).
C4_AbsentParaIsSuccess ==
    [][ /\ (Leaves("on_request") /\ AbsentParaQuery) =>
            /\ pc' = "send"
            /\ metrics.enabled =>
                /\ metrics'.succeeded = metrics.succeeded + 1
                /\ metrics'.failed = metrics.failed
        /\ (Leaves("send") /\ AbsentParaQuery) =>
            sent'[cur.sender] = <<Ok(<<"None">>)>>
        /\ (Leaves("send") /\ PresentParaQuery) =>
            sent'[cur.sender] =
                <<Ok(<<"Some", cur.variant, cur.relay_parent, cur.para>>)>>
      ]_vars

\* C5: receiving Conclude makes run return Ok(()), and from then on the loop
\* reads nothing from the mailbox and touches neither the provider, the
\* counters nor any reply channel, whatever is enqueued afterwards.
C5_ConcludeIsTerminal ==
    [][ /\ (Receives /\ Head(mailbox).kind = "Signal"
                     /\ Head(mailbox).signal = "Conclude") =>
            (pc' = "returned" /\ result' = "Ok")
        /\ pc = "returned" =>
            /\ pc' = "returned"
            /\ ~Receives
            /\ UNCHANGED <<result, future, cur, res, metrics, sent, slot,
                           calls, observed>>
      ]_vars

\* C5 witness: run has returned Ok(()) with a request left on the bus.
C5_Witness ==
    /\ pc = "returned"
    /\ result = "Ok"
    /\ Waiting # {}

\* C6: receiving ActiveLeaves or BlockFinalized changes nothing but the
\* mailbox, which loses exactly that signal: no counter, provider call or
\* reply channel is touched and the loop goes on receiving, so what follows
\* is handled from the state it would be handled from without the signal.
C6_OtherSignalsIgnored ==
    [][ (Receives /\ Head(mailbox).kind = "Signal"
                  /\ Head(mailbox).signal # "Conclude") =>
            /\ mailbox' = Tail(mailbox)
            /\ pc' = "recv"
            /\ UNCHANGED <<result, future, cur, res, client, metrics, sent,
                           slot, rx, calls, observed>>
      ]_vars

\* C6 witness: a non-conclude signal was received and the request sent after
\* it is now in dispatch, on its way to its reply.
C6_Witness ==
    /\ nsent = 2
    /\ ~closed
    /\ mailbox = <<>>
    /\ pc = "send"
    /\ cur.sender = 1
    /\ rx[2] = "none"

\* C7: requests are dispatched in delivery order (senders are numbered as
\* their requests are enqueued): the provider calls are in that order, a
\* request's call is made only after every earlier request was recorded and
\* replied to, and the stream of on_request observations is the stream of
\* the requests' outcomes in that order.
C7_DeliveryOrder ==
    /\ \A k \in 1..(Len(calls) - 1) :
        /\ calls[k].sender < calls[k + 1].sender
        /\ k <= Len(observed)
        /\ Len(sent[calls[k].sender]) = 1
    /\ \A i \in Waiting : \A k \in DOMAIN calls : calls[k].sender < i
    /\ Len(observed) <= Len(calls)
    /\ Len(calls) <= Len(observed) + 1
    /\ \A k \in DOMAIN observed : observed[k] = AnswerOf(calls[k]).ok

\* C7 witness: two requests with different outcomes were dispatched.
C7_Witness ==
    /\ Len(calls) = 2
    /\ Len(observed) = 2
    /\ observed[1] # observed[2]
    /\ sent[calls[2].sender] # <<>>

\* C8: a failed receive ends the loop at once (run returns the error, and
\* nothing is received or dispatched afterwards), and the outcome the
\* supervisor gets from the spawned future differs from a clean conclude's.
C8_ReceiveFailureSurfaced ==
    [][ /\ (result = "none" /\ result' = "Err") =>
            /\ pc' = "returned"
            /\ ~Receives
            /\ future' # StartMap("Ok")
        /\ result = "Err" =>
            /\ ~Receives
            /\ UNCHANGED <<pc, result, future, cur, res, metrics, sent,
                           slot, calls, observed>>
      ]_vars

\* C9: a provider failure stays inside dispatch: the dispatch of a request
\* whose provider call fails runs to its reply and hands control back to the
\* loop, which is then receiving again.
C9_ProviderFailureContained ==
    [][ (InDispatch /\ ~Answer(cur).ok) =>
            /\ pc' \in {"api", "on_request", "send", "recv"}
            /\ Leaves("on_request") => pc' = "send"
            /\ Leaves("send") => pc' = "recv"
      ]_vars

\* C10: with metrics from try_register, on_request(success) completes and
\* increments exactly the counter labelled "succeeded" when success is true
\* and "failed" otherwise, by exactly one.
C10_OnRequestInfallible ==
    [][ (Leaves("on_request") /\ metrics.enabled) =>
            /\ pc' = "send"
            /\ metrics'.succeeded =
                   metrics.succeeded + (IF res.ok THEN 1 ELSE 0)
            /\ metrics'.failed = metrics.failed + (IF res.ok THEN 0 ELSE 1)
      ]_vars

\* C11: abandoning a reply channel is harmless: the dispatch of a request
\* whose read side was dropped still calls the provider and records the
\* outcome, its write is discarded without any error, and the loop is
\* receiving again afterwards.
C11_AbandonedReplyHarmless ==
    [][ (InDispatch /\ rx[cur.sender] = "dropped") =>
            /\ Leaves("api") =>
                (Len(calls') = Len(calls) + 1 /\ pc' = "on_request")
            /\ Leaves("on_request") =>
                (Len(observed') = Len(observed) + 1 /\ pc' = "send")
            /\ Leaves("send") =>
                /\ pc' = "recv"
                /\ Len(sent'[cur.sender]) = 1
                /\ slot' = slot
            /\ UNCHANGED <<result, future>>
      ]_vars

\* C12: the recorder without metrics does nothing observable, and the loop
\* with registered metrics takes, at the one step that consults the metrics,
\* the step the loop without metrics takes from there: both go on to the same
\* reply write and the same loop state, so the two runs differ in the
\* counters alone.
C12_MetricsDoNotChangeTheRun ==
    [][ Leaves("on_request") =>
            /\ ~metrics.enabled => metrics' = metrics
            /\ pc' = IF on_request(NoMetrics, IsOk(res)).panicked
                     THEN "panicked" ELSE "send"
            /\ <<cur', res', result', future'>> = <<cur, res, result, future>>
      ]_vars

\* The loop has ended, by a return of run or by unwinding.
LoopEnded == pc \in {"returned", "panicked"}

\* C13: run returns Ok(()) only in a step that receives Conclude, and no
\* step that handles a request, a non-conclude signal or a provider failure
\* ends the loop.
C13_OnlyConcludeStops ==
    [][ /\ (result # "Ok" /\ result' = "Ok") =>
            /\ Receives
            /\ Head(mailbox).kind = "Signal"
            /\ Head(mailbox).signal = "Conclude"
        /\ (~LoopEnded /\ LoopEnded') =>
            \/ result' = "Err"
            \/ /\ Receives
               /\ Head(mailbox).kind = "Signal"
               /\ Head(mailbox).signal = "Conclude"
      ]_vars

\* The number of TRUE (or FALSE) observations among those made so far.
Observations(b) == Cardinality({k \in DOMAIN observed : observed[k] = b})

\* C14: the outcome is recorded before the reply is written: whenever the
\* reply channel of the request of the k-th dispatch holds a write, the k-th
\* on_request observation has been made with that reply's outcome, and the
\* counters (where there are counters) include every observation made.
C14_RecordedBeforeReply ==
    \A k \in DOMAIN calls :
        sent[calls[k].sender] # <<>> =>
            /\ k <= Len(observed)
            /\ observed[k] = sent[calls[k].sender][1].ok
            /\ metrics.enabled =>
                /\ metrics.succeeded = Observations(TRUE)
                /\ metrics.failed = Observations(FALSE)

\* C14 witness: a reply has been written and its outcome observed.
C14_Witness ==
    /\ calls # <<>>
    /\ sent[calls[1].sender] # <<>>
    /\ Len(observed) = 1

\* The provider calls made for request i.
CallsFor(i) == {k \in DOMAIN calls : calls[k].sender = i}

\* C15: each dispatched Request causes exactly one provider call (none
\* before its dispatch, one from its call step on, never a second), and the
\* call is the operation of the request's variant with the request's own
\* block reference and parameters.
C15_OneCallPerRequest ==
    /\ \A i \in SenderIds :
        Cardinality(CallsFor(i)) =
            IF \/ DispatchFinished(i)
               \/ (cur.sender = i /\ pc \in {"on_request", "send"})
            THEN 1 ELSE 0
    /\ pc \in {"on_request", "send"} =>
        calls[Len(calls)] =
            [variant |-> cur.variant, at |-> cur.relay_parent,
             para |-> cur.para, assumption |-> cur.assumption,
             sender |-> cur.sender]

\* C15 witness: the same failing query was asked twice and called twice.
C15_Witness ==
    /\ Len(calls) = 2
    /\ calls[1].variant = calls[2].variant
    /\ calls[1].at = calls[2].at
    /\ calls[1].para = calls[2].para
    /\ calls[1].at \in client.failing
    /\ sent[calls[2].sender] # <<>>

\* One request at most is in dispatch, and when run has returned Ok(()) every
\* request delivered ahead of the Conclude has its reply.
DispatchIsWhole ==
    /\ InDispatch <=> cur.kind = "Communication"
    /\ InDispatch => cur.sender \notin Waiting
    /\ result = "Ok" =>
        \A i \in SenderIds :
            (rx[i] # "none" /\ i \notin Waiting) => Len(sent[i]) = 1

\* C16: dispatch is atomic with respect to the mailbox: nothing is received
\* between the receipt of a Request and the write of its reply, one request
\* at most is in dispatch, and a Conclude delivered after a Request does not
\* take that Request's reply away.
C16_DispatchAtomic ==
    [][ /\ InDispatch => ~Receives
        /\ DispatchIsWhole
        /\ DispatchIsWhole'
      ]_vars

\* C16 witness: a Conclude is waiting while a request is about to be replied.
C16_Witness ==
    /\ pc = "send"
    /\ mailbox # <<>>
    /\ Head(mailbox).kind = "Signal"
    /\ Head(mailbox).signal = "Conclude"

\* The replies written so far with outcome b.
Replies(b) == {i \in SenderIds : sent[i] # <<>> /\ sent[i][1].ok = b}

\* Between dispatches, the registered counters count the dispatches made.
CountersCountDispatches ==
    (metrics.enabled /\ ~InDispatch) =>
        /\ metrics.succeeded + metrics.failed =
               Cardinality({i \in SenderIds : DispatchFinished(i)})
        /\ metrics.succeeded = Cardinality(Replies(TRUE))
        /\ metrics.failed = Cardinality(Replies(FALSE))

\* C17: with metrics enabled no step lowers a counter, and succeeded + failed
\* is the number of Requests dispatched so far, succeeded the number of Ok
\* replies and failed the number of Err replies.
C17_CountersCountReplies ==
    [][ /\ metrics'.succeeded >= metrics.succeeded
        /\ metrics'.failed >= metrics.failed
        /\ CountersCountDispatches
        /\ CountersCountDispatches'
      ]_vars

\* A Conclude is on the bus, ahead of request i or anywhere.
ConcludeAt(k) ==
    mailbox[k].kind = "Signal" /\ mailbox[k].signal = "Conclude"
ConcludeWaiting == \E k \in DOMAIN mailbox : ConcludeAt(k)
ConcludeAhead(i) ==
    \E k, j \in DOMAIN mailbox :
        /\ k < j
        /\ ConcludeAt(k)
        /\ mailbox[j].kind = "Communication"
        /\ mailbox[j].sender = i

\* C18: with the task polled fairly and the bus up, every Request on the bus
\* with no Conclude delivered before it is eventually replied to, and once a
\* Conclude is on the bus run eventually returns.
C18_EveryRequestAnswered ==
    /\ \A i \in SenderIds :
        (i \in Waiting /\ ~ConcludeAhead(i) /\ pc # "returned")
            ~> (sent[i] # <<>>)
    /\ ConcludeWaiting ~> (pc = "returned")

\* C19: the value written to a Request's reply channel is the provider's
\* answer to that request's own call (errors mapped to the diagnostic), and
\* nothing else: what was processed earlier has no part in it.
C19_HistoryIndependent ==
    \A k \in DOMAIN calls :
        \/ sent[calls[k].sender] = <<>>
        \/ sent[calls[k].sender] = <<MapErr(AnswerOf(calls[k]))>>

\* C19 witness: a query was replied to after a query of the same variant at
\* another block was processed, with another answer.
C19_Witness ==
    /\ Len(calls) = 2
    /\ calls[1].variant = calls[2].variant
    /\ calls[1].at # calls[2].at
    /\ sent[calls[1].sender] # <<>>
    /\ sent[calls[2].sender] # <<>>
    /\ sent[calls[1].sender][1].ok # sent[calls[2].sender][1].ok

====
